---- MODULE Spec2Model ----
(***************************************************************************)
(* Model of utils/visualizations.py: the adjacency-to-edge-index           *)
(* converter, the degree statistics of plot_in_out_degree_distributions    *)
(* and the backend dispatch of visualize_graph.                            *)
(*                                                                         *)
(* NumPy arrays are nested sequences: a 2-D array is the sequence of its   *)
(* rows, the 1-D array of length 0 is <<>>.  Python indices are 0-based,   *)
(* the sequences are 1-based, so a[i, j] is a[i + 1][j + 1].               *)
(***************************************************************************)
EXTENDS Integers, Sequences, FiniteSets, TLC

\* ---------------------------------------------------------------- bounds
MaxN == 2            \* largest matrix dimension drawn as an input
MaxEdges == 3        \* longest edge index drawn for the degree statistics
MaxNodeId == 2       \* largest node id in a drawn edge index
MaxVisEdges == 2     \* longest edge index drawn for visualize_graph
MaxVisNodeId == 1    \* largest node id drawn for visualize_graph
MaxBetw2 == 3        \* largest edge betweenness drawn, in halves

\* ---------------------------------------------------------------- values
\* np.inf: a float above every finite cell value; -np.inf is its negation
PosInf == 1000000
NegInf == 0 - PosInf
None == 0 - 1

\* the cell values of the matrices drawn as inputs
Cells == {0, 1, NegInf, PosInf}
MaskCells == {0, 1, NegInf}

\* ------------------------------------------------------- array primitives
\* ndarray.shape
shape(a) == IF a = <<>> THEN <<0>> ELSE <<Len(a), Len(a[1])>>

\* np.isinf on one cell
isinf(x) == x = PosInf \/ x = NegInf

\* np.asarray on a list of [src, trg] pairs: the (N, 2) array, (0,) if empty
asarray(l) == l

\* ndarray.transpose: reverses the axes; a 1-D array is its own transpose
transpose(a) ==
    IF Len(shape(a)) = 1 THEN a
    ELSE [j \in 1..Len(a[1]) |-> [i \in 1..Len(a) |-> a[i][j]]]

\* -------------------------------------------- convert_adj_to_edge_index
isinstance_ndarray(obj) == obj.type = "ndarray"

IsSquareMutant(s) == TRUE
IsSquare(s) == s[1] = s[2]

ActiveValueMutant(m) == 1
ActiveValue(m) ==
    IF \E i \in 1..Len(m) : \E j \in 1..Len(m[i]) : isinf(m[i][j])
    THEN 0 ELSE 1

EmitPairMutant(s, t) == <<t, s>>
EmitPair(s, t) == <<s, t>>

\* the double loop of lines 27-30, cell k = src_node_id * w + trg_nod_id
RECURSIVE ScanFrom(_, _, _, _)
ScanFrom(m, av, k, acc) ==
    LET h == Len(m)
        w == Len(m[1])
        s == k \div w
        t == k % w
    IN  IF k >= h * w THEN acc
        ELSE ScanFrom(m, av, k + 1,
                      IF m[s + 1][t + 1] = av
                      THEN Append(acc, EmitPair(s, t)) ELSE acc)

ScanCells(m, av) == ScanFrom(m, av, 0, <<>>)

\* the value returned for a square ndarray
convert_adj_to_edge_index(m) ==
    transpose(asarray(ScanCells(m, ActiveValue(m))))

\* ------------------------------------------- get_num_nodes_from_edge_index
\* edge_index[0] and edge_index[1] exist only on an array with two rows
HasTwoRows(ei) == Len(shape(ei)) = 2 /\ shape(ei)[1] >= 2

RowSet(row) == {row[k] : k \in 1..Len(row)}

NodeIdsMutant(ei) == RowSet(ei[1])
NodeIds(ei) == RowSet(ei[1]) \cup RowSet(ei[2])

get_num_nodes_from_edge_index(ei) == Cardinality(NodeIds(ei))

\* ------------------------------------------------------------------ state
VARIABLES
    fn,            \* the function being executed
    pc,            \* the statement it is at
    error,         \* the exception that ended it, "none" while it runs
    kind,          \* what the caller passed: "edge_index" or "adjacency"
    arg,           \* the first argument: [type, val]
    tool,          \* visualization_tool
    dataset_name,
    node_labels,
    active_value,  \* None before line 24
    edge_list,     \* the list edge_index of convert_adj_to_edge_index
    result,        \* its return value
    edge_index,    \* the array the statistics and the drawing work on
    num_of_nodes,
    in_degrees,
    out_degrees,
    cnt,
    hist,
    edge_betweenness,
    edge_weights_raw_normalized,
    visual_style,
    graph,         \* the graph object built, NoGraph before
    message,       \* what the raised exception names, "" if nothing
    calls          \* the rendering and print calls made so far

vars == <<fn, pc, error, kind, arg, tool, dataset_name, node_labels,
          active_value, edge_list, result, edge_index, num_of_nodes,
          in_degrees, out_degrees, cnt, hist, edge_betweenness,
          edge_weights_raw_normalized, visual_style, graph, message,
          calls>>

convVars == <<active_value, edge_list, result>>
plotVars == <<in_degrees, out_degrees, cnt, hist>>
visVars == <<edge_betweenness, edge_weights_raw_normalized, visual_style,
             graph, message>>
inputVars == <<fn, kind, arg, tool, dataset_name, node_labels>>

\* ----------------------------------------------------------------- inputs
Matrices(h, w, cells) == [1..h -> [1..w -> cells]]

EdgeIndices(maxE, maxId) ==
    UNION {[1..2 -> [1..e -> 0..maxId]] : e \in 0..maxE}

NoTool == [cls |-> "NoneType", name |-> "None"]

NoGraph == [lib |-> "none", vertices |-> 0, edges |-> <<>>]

NoStyle == [bbox |-> <<0, 0>>, margin |-> 0, edge_width |-> <<>>,
            vertex_size |-> <<>>, vertex_color |-> <<>>, layout |-> "none"]

Blank ==
    /\ error = "none"
    /\ tool = NoTool
    /\ dataset_name = "none"
    /\ node_labels = <<>>
    /\ active_value = None
    /\ edge_list = <<>>
    /\ result = <<>>
    /\ edge_index = <<>>
    /\ num_of_nodes = None
    /\ in_degrees = <<>>
    /\ out_degrees = <<>>
    /\ cnt = 0
    /\ hist = <<>>
    /\ edge_betweenness = <<>>
    /\ edge_weights_raw_normalized = <<>>
    /\ visual_style = NoStyle
    /\ graph = NoGraph
    /\ message = ""
    /\ calls = <<>>

\* convert_adj_to_edge_index(adjacency_matrix): any h x w array, or a list
InitConvert ==
    /\ fn = "convert"
    /\ pc = "conv_assert_type"
    /\ \E h \in 1..MaxN, w \in 1..MaxN :
         \E m \in Matrices(h, w, Cells) :
           \E t \in {"ndarray", "list"} :
             /\ arg = [type |-> t, val |-> m]
             /\ kind = "adjacency"
    /\ Blank

\* ----------------------------------- actions of convert_adj_to_edge_index
\* line 16
ConvAssertType ==
    /\ fn = "convert" /\ pc = "conv_assert_type" /\ error = "none"
    /\ IF isinstance_ndarray(arg)
       THEN pc' = "conv_assert_square" /\ error' = error
       ELSE pc' = pc /\ error' = "AssertionError"
    /\ UNCHANGED <<inputVars, convVars, edge_index, num_of_nodes, plotVars,
                   visVars, calls>>

\* lines 17-18
ConvAssertSquare ==
    /\ fn = "convert" /\ pc = "conv_assert_square" /\ error = "none"
    /\ IF IsSquare(shape(arg.val))
       THEN pc' = "conv_active" /\ error' = error
       ELSE pc' = pc /\ error' = "AssertionError"
    /\ UNCHANGED <<inputVars, convVars, edge_index, num_of_nodes, plotVars,
                   visVars, calls>>

\* line 24
ConvActive ==
    /\ fn = "convert" /\ pc = "conv_active" /\ error = "none"
    /\ active_value' = ActiveValue(arg.val)
    /\ pc' = "conv_scan"
    /\ UNCHANGED <<inputVars, error, edge_list, result, edge_index,
                   num_of_nodes, plotVars, visVars, calls>>

\* lines 26-30
ConvScan ==
    /\ fn = "convert" /\ pc = "conv_scan" /\ error = "none"
    /\ edge_list' = ScanCells(arg.val, active_value)
    /\ pc' = "conv_return"
    /\ UNCHANGED <<inputVars, error, active_value, result, edge_index,
                   num_of_nodes, plotVars, visVars, calls>>

\* line 32
ConvReturn ==
    /\ fn = "convert" /\ pc = "conv_return" /\ error = "none"
    /\ result' = transpose(asarray(edge_list))
    /\ pc' = "returned"
    /\ UNCHANGED <<inputVars, error, active_value, edge_list, edge_index,
                   num_of_nodes, plotVars, visVars, calls>>

NextConvert ==
    \/ ConvAssertType
    \/ ConvAssertSquare
    \/ ConvActive
    \/ ConvScan
    \/ ConvReturn

SpecConvert == InitConvert /\ [][NextConvert]_vars

\* ------------------------------------- plot_in_out_degree_distributions
\* np.zeros(n, dtype=np.int): indexed by node id 0..n-1 (np.int is the
\* builtin int of the NumPy releases that still define it)
zeros(n) == [v \in 0..(n - 1) |-> 0]

InBounds(a, i) == i \in DOMAIN a

\* sum and maximum of a degree array
RECURSIVE SumUpTo(_, _)
SumUpTo(a, n) == IF n <= 0 THEN 0 ELSE a[n - 1] + SumUpTo(a, n - 1)
Sum(a) == SumUpTo(a, Cardinality(DOMAIN a))

np_max(a) == CHOOSE x \in {a[v] : v \in DOMAIN a} :
                 \A v \in DOMAIN a : a[v] <= x

HistSize(degs) == np_max(degs) + 1

\* lines 60-62: one increment of hist[out_degree] per node, in node order
RECURSIVE HistFrom(_, _, _)
HistFrom(degs, v, h) ==
    IF v >= Cardinality(DOMAIN degs) THEN h
    ELSE HistFrom(degs, v + 1, [h EXCEPT ![degs[v]] = @ + 1])

Histogram(degs) == HistFrom(degs, 0, zeros(HistSize(degs)))

\* line 43 and line 91: a square array is taken for an adjacency matrix
LooksSquare(a) == shape(a)[1] = shape(a)[2]

\* lines 43-44 and 91-92
AsEdgeIndex(a) ==
    IF LooksSquare(a) THEN convert_adj_to_edge_index(a) ELSE a

SourceOf(ei, k) == ei[1][k + 1]
TargetOf(ei, k) == ei[2][k + 1]

\* the caller passes an edge index of shape (2, E) or an adjacency matrix
InitDegrees ==
    /\ fn = "plot"
    /\ pc = "plot_assert"
    /\ \/ \E ei \in EdgeIndices(MaxEdges, MaxNodeId) :
            \E t \in {"ndarray", "list"} :
              /\ arg = [type |-> t, val |-> ei]
              /\ kind = "edge_index"
       \/ \E n \in 1..MaxN : \E m \in Matrices(n, n, MaskCells) :
            /\ arg = [type |-> "ndarray", val |-> m]
            /\ kind = "adjacency"
    /\ Blank

\* line 42
PlotAssert ==
    /\ fn = "plot" /\ pc = "plot_assert" /\ error = "none"
    /\ IF isinstance_ndarray(arg)
       THEN pc' = "plot_convert" /\ error' = error
       ELSE pc' = pc /\ error' = "AssertionError"
    /\ UNCHANGED <<inputVars, convVars, edge_index, num_of_nodes, plotVars,
                   visVars, calls>>

\* lines 43-44
PlotConvert ==
    /\ fn = "plot" /\ pc = "plot_convert" /\ error = "none"
    /\ edge_index' = AsEdgeIndex(arg.val)
    /\ pc' = "plot_num_nodes"
    /\ UNCHANGED <<inputVars, error, convVars, num_of_nodes, plotVars,
                   visVars, calls>>

\* lines 46-49: edge_index[0] fails on the 1-D array of length 0
PlotNumNodes ==
    /\ fn = "plot" /\ pc = "plot_num_nodes" /\ error = "none"
    /\ IF HasTwoRows(edge_index)
       THEN /\ num_of_nodes' = get_num_nodes_from_edge_index(edge_index)
            /\ in_degrees' = zeros(num_of_nodes')
            /\ out_degrees' = zeros(num_of_nodes')
            /\ pc' = "plot_count"
            /\ error' = error
       ELSE /\ error' = "IndexError"
            /\ UNCHANGED <<pc, num_of_nodes, in_degrees, out_degrees>>
    /\ UNCHANGED <<inputVars, convVars, edge_index, cnt, hist, visVars,
                   calls>>

\* lines 53-58, one iteration: line 57 runs before line 58
PlotCountEdge ==
    /\ fn = "plot" /\ pc = "plot_count" /\ error = "none"
    /\ cnt < shape(edge_index)[2]
    /\ LET source_node_id == SourceOf(edge_index, cnt)
           target_node_id == TargetOf(edge_index, cnt)
       IN  IF ~InBounds(out_degrees, source_node_id)
           THEN /\ error' = "IndexError"
                /\ UNCHANGED <<out_degrees, in_degrees, cnt>>
           ELSE /\ out_degrees' =
                      [out_degrees EXCEPT ![source_node_id] = @ + 1]
                /\ IF ~InBounds(in_degrees, target_node_id)
                   THEN /\ error' = "IndexError"
                        /\ UNCHANGED <<in_degrees, cnt>>
                   ELSE /\ in_degrees' =
                              [in_degrees EXCEPT ![target_node_id] = @ + 1]
                        /\ cnt' = cnt + 1
                        /\ error' = error
    /\ UNCHANGED <<inputVars, pc, convVars, edge_index, num_of_nodes, hist,
                   visVars, calls>>

\* lines 60-62: np.max of an empty array raises ValueError
PlotHist ==
    /\ fn = "plot" /\ pc = "plot_count" /\ error = "none"
    /\ cnt >= shape(edge_index)[2]
    /\ IF num_of_nodes = 0
       THEN error' = "ValueError" /\ UNCHANGED <<pc, hist>>
       ELSE /\ hist' = Histogram(out_degrees)
            /\ pc' = "plot_show"
            /\ error' = error
    /\ UNCHANGED <<inputVars, convVars, edge_index, num_of_nodes, in_degrees,
                   out_degrees, cnt, visVars, calls>>

\* lines 64-79
PlotShow ==
    /\ fn = "plot" /\ pc = "plot_show" /\ error = "none"
    /\ calls' = calls \o <<"plt.plot", "plt.plot", "plt.plot", "plt.show">>
    /\ pc' = "done"
    /\ UNCHANGED <<inputVars, error, convVars, edge_index, num_of_nodes,
                   plotVars, visVars>>

NextDegrees ==
    \/ PlotAssert
    \/ PlotConvert
    \/ PlotNumNodes
    \/ PlotCountEdge
    \/ PlotHist
    \/ PlotShow

SpecDegrees == InitDegrees /\ [][NextDegrees]_vars

\* -------------------------------------------------------- visualize_graph
\* the members of the enumerations imported on line 7, and a plain string
NETWORKX == [cls |-> "GraphVisualizationTool", name |-> "NETWORKX"]
IGRAPH == [cls |-> "GraphVisualizationTool", name |-> "IGRAPH"]
CORA == [cls |-> "DatasetType", name |-> "CORA"]
PlainString == [cls |-> "str", name |-> "igraph"]

Selectors == {NETWORKX, IGRAPH, CORA, PlainString}

\* an enumeration member has the attribute .name, a str has not
HasName(t) == t.cls # "str"

IsSupported(t) == t = NETWORKX \/ t = IGRAPH

DatasetNames == {"Cora", "PPI"}

\* str.lower on the names above
lower(s) == CASE s = "Cora" -> "cora"
              [] s = "CORA" -> "cora"
              [] s = "PPI" -> "ppi"
              [] OTHER -> s

\* line 136
label_to_color_map ==
    [l \in 0..6 |-> CASE l = 0 -> "red" [] l = 1 -> "blue"
                      [] l = 2 -> "green" [] l = 3 -> "orange"
                      [] l = 4 -> "yellow" [] l = 5 -> "pink"
                      [] OTHER -> "gray"]

\* line 95: list(zip(edge_index[0, :], edge_index[1, :]))
zip(ei) == [k \in 1..Len(ei[1]) |-> <<ei[1][k], ei[2][k]>>]

\* np.log of a betweenness given in halves, in tenths (rounded):
\* log 0 = -inf, log 0.5 = -0.7, log 1 = 0, log 1.5 = 0.4, log 2 = 0.7, ...
np_log(b2) == CASE b2 = 0 -> NegInf
                [] b2 = 1 -> 0 - 7
                [] b2 = 2 -> 0
                [] b2 = 3 -> 4
                [] b2 = 4 -> 7
                [] b2 = 5 -> 9
                [] b2 = 6 -> 11
                [] b2 = 7 -> 13
                [] OTHER -> 14

np_clip_min(x, a_min) == IF x < a_min THEN a_min ELSE x

SeqMax(q) == CHOOSE x \in {q[k] : k \in 1..Len(q)} :
                 \A k \in 1..Len(q) : q[k] <= x

\* line 126
EdgeWeightsRaw(bw) == [k \in 1..Len(bw) |-> np_clip_min(np_log(bw[k]), 0)]

\* line 127: the quotient raw / max as a fraction; 0 / 0 is NaN
Normalize(raw) ==
    [k \in 1..Len(raw) |-> [num |-> raw[k], den |-> SeqMax(raw)]]

\* line 128
Pow6(q) == [num |-> q.num * q.num * q.num * q.num * q.num * q.num,
            den |-> q.den * q.den * q.den * q.den * q.den * q.den]

\* igraph's degree(): every edge end counts, a loop counts twice
Degree(g, v) ==
    Cardinality({k \in 1..Len(g.edges) : g.edges[k][1] = v})
    + Cardinality({k \in 1..Len(g.edges) : g.edges[k][2] = v})

InitVisualize ==
    /\ fn = "visualize"
    /\ pc = "vis_assert"
    /\ error = "none"
    /\ kind = "edge_index"
    /\ \E ei \in EdgeIndices(MaxVisEdges, MaxVisNodeId) :
         \E t \in {"ndarray", "list"} : arg = [type |-> t, val |-> ei]
    /\ tool \in Selectors
    /\ dataset_name \in DatasetNames
    /\ \E l \in {0, 7} : node_labels = [v \in 1..(MaxVisNodeId + 1) |-> l]
    /\ active_value = None
    /\ edge_list = <<>>
    /\ result = <<>>
    /\ edge_index = <<>>
    /\ num_of_nodes = None
    /\ in_degrees = <<>>
    /\ out_degrees = <<>>
    /\ cnt = 0
    /\ hist = <<>>
    /\ edge_betweenness = <<>>
    /\ edge_weights_raw_normalized = <<>>
    /\ visual_style = NoStyle
    /\ graph = NoGraph
    /\ message = ""
    /\ calls = <<>>

\* line 90
VisAssert ==
    /\ fn = "visualize" /\ pc = "vis_assert" /\ error = "none"
    /\ IF isinstance_ndarray(arg)
       THEN pc' = "vis_convert" /\ error' = error
       ELSE pc' = pc /\ error' = "AssertionError"
    /\ UNCHANGED <<inputVars, convVars, edge_index, num_of_nodes, plotVars,
                   visVars, calls>>

\* lines 91-92
VisConvert ==
    /\ fn = "visualize" /\ pc = "vis_convert" /\ error = "none"
    /\ edge_index' = AsEdgeIndex(arg.val)
    /\ pc' = "vis_num_nodes"
    /\ UNCHANGED <<inputVars, error, convVars, num_of_nodes, plotVars,
                   visVars, calls>>

\* lines 94-95
VisNumNodes ==
    /\ fn = "visualize" /\ pc = "vis_num_nodes" /\ error = "none"
    /\ IF HasTwoRows(edge_index)
       THEN /\ num_of_nodes' = get_num_nodes_from_edge_index(edge_index)
            /\ pc' = "vis_dispatch"
            /\ error' = error
       ELSE /\ error' = "IndexError"
            /\ UNCHANGED <<pc, num_of_nodes>>
    /\ UNCHANGED <<inputVars, convVars, edge_index, plotVars, visVars,
                   calls>>

\* nx.Graph(): an undirected graph without parallel edges.  Its nodes are
\* kept in the order add_edges_from first meets them, each node's neighbours
\* in the order they were joined to it.
RECURSIVE Dedup(_, _, _)
Dedup(q, k, acc) ==
    IF k > Len(q) THEN acc
    ELSE Dedup(q, k + 1,
               IF \E j \in 1..Len(acc) : acc[j] = q[k] THEN acc
               ELSE Append(acc, q[k]))

Ends(tuples) ==
    [i \in 1..(2 * Len(tuples)) |->
        tuples[(i + 1) \div 2][IF i % 2 = 1 THEN 1 ELSE 2]]

NxNodes(tuples) == Dedup(Ends(tuples), 1, <<>>)

RECURSIVE NxJoined(_, _, _, _)
NxJoined(tuples, n, k, acc) ==
    IF k > Len(tuples) THEN acc
    ELSE LET u == tuples[k][1]
             v == tuples[k][2]
         IN  NxJoined(tuples, n, k + 1,
                      IF u = n THEN Append(acc, v)
                      ELSE IF v = n THEN Append(acc, u)
                      ELSE acc)

NxAdj(tuples, n) == Dedup(NxJoined(tuples, n, 1, <<>>), 1, <<>>)

\* the edges the graph holds, each once: node by node, towards the
\* neighbours that were not listed before
RECURSIVE NxEdgesFrom(_, _, _)
NxEdgesFrom(tuples, i, acc) ==
    LET nodes == NxNodes(tuples)
    IN  IF i > Len(nodes) THEN acc
        ELSE LET n == nodes[i]
                 seen == {nodes[j] : j \in 1..(i - 1)}
                 adj == NxAdj(tuples, n)
                 new == SelectSeq(adj, LAMBDA x : x \notin seen)
             IN  NxEdgesFrom(tuples, i + 1,
                             acc \o [k \in 1..Len(new) |-> <<n, new[k]>>])

NxEdges(tuples) == NxEdgesFrom(tuples, 1, <<>>)

\* lines 99-103
VisNetworkx ==
    /\ fn = "visualize" /\ pc = "vis_dispatch" /\ error = "none"
    /\ tool = NETWORKX
    /\ graph' = [lib |-> "networkx",
                 vertices |-> Len(NxNodes(zip(edge_index))),
                 edges |-> NxEdges(zip(edge_index))]
    /\ calls' = calls \o <<"nx.draw_networkx", "plt.show">>
    /\ pc' = "done"
    /\ UNCHANGED <<inputVars, error, convVars, edge_index, num_of_nodes,
                   plotVars, edge_betweenness, edge_weights_raw_normalized,
                   visual_style, message>>

\* lines 105-116: add_edges refuses a vertex id outside 0..num_of_nodes-1
VisIgraphBuild ==
    /\ fn = "visualize" /\ pc = "vis_dispatch" /\ error = "none"
    /\ tool # NETWORKX /\ tool = IGRAPH
    /\ graph' = [lib |-> "igraph", vertices |-> num_of_nodes,
                 edges |-> IF NodeIds(edge_index) \subseteq
                                 0..(num_of_nodes - 1)
                           THEN zip(edge_index) ELSE <<>>]
    /\ IF NodeIds(edge_index) \subseteq 0..(num_of_nodes - 1)
       THEN /\ visual_style' = [visual_style EXCEPT !.bbox = <<3000, 3000>>,
                                                    !.margin = 35]
            /\ pc' = "vis_weights"
            /\ error' = error
       ELSE /\ error' = "InvalidVertexId"
            /\ UNCHANGED <<pc, visual_style>>
    /\ UNCHANGED <<inputVars, convVars, edge_index, num_of_nodes, plotVars,
                   edge_betweenness, edge_weights_raw_normalized, message,
                   calls>>

\* the edges joining the same two vertices as edge k (the graph is undirected)
Parallel(edges, k) ==
    {j \in 1..Len(edges) :
        {edges[j][1], edges[j][2]} = {edges[k][1], edges[k][2]}}

\* what ig_graph.edge_betweenness() can return, in halves: no shortest path
\* uses a loop; the only edge between two vertices carries their shortest
\* path (at least 1.0); parallel edges share it (0.5 each when there are two)
EdgeBetweennessValues(edges) ==
    {bw \in [1..Len(edges) -> 0..MaxBetw2] :
        \A k \in 1..Len(edges) :
            IF edges[k][1] = edges[k][2] THEN bw[k] = 0
            ELSE IF Cardinality(Parallel(edges, k)) = 1 THEN bw[k] >= 2
            ELSE bw[k] >= 1}

\* lines 126-129: the betweenness is igraph's, one value per edge;
\* np.max of an empty array raises ValueError
VisIgraphWeights ==
    /\ fn = "visualize" /\ pc = "vis_weights" /\ error = "none"
    /\ \E bw \in EdgeBetweennessValues(graph.edges) :
         /\ edge_betweenness' = bw
         /\ IF Len(bw) = 0
            THEN /\ error' = "ValueError"
                 /\ UNCHANGED <<pc, edge_weights_raw_normalized,
                                visual_style>>
            ELSE /\ edge_weights_raw_normalized' =
                       Normalize(EdgeWeightsRaw(bw))
                 /\ visual_style' =
                       [visual_style EXCEPT !.edge_width =
                          [k \in 1..Len(bw) |->
                             Pow6(edge_weights_raw_normalized'[k])]]
                 /\ pc' = "vis_style"
                 /\ error' = error
    /\ UNCHANGED <<inputVars, convVars, edge_index, num_of_nodes, plotVars,
                   graph, message, calls>>

\* lines 132-144: vertex sizes in halves; a label outside 0..6 is a KeyError
VisIgraphStyle ==
    /\ fn = "visualize" /\ pc = "vis_style" /\ error = "none"
    /\ LET sized == [visual_style EXCEPT !.vertex_size =
                       [v \in 1..graph.vertices |-> Degree(graph, v - 1)]]
       IN  IF lower(dataset_name) = lower(CORA.name)
           THEN IF \A k \in 1..Len(node_labels) :
                      node_labels[k] \in DOMAIN label_to_color_map
                THEN /\ visual_style' =
                          [sized EXCEPT !.vertex_color =
                             [k \in 1..Len(node_labels) |->
                                label_to_color_map[node_labels[k]]],
                                        !.layout = "kamada_kawai"]
                     /\ pc' = "vis_plot"
                     /\ UNCHANGED <<error, calls>>
                ELSE /\ visual_style' = sized
                     /\ error' = "KeyError"
                     /\ UNCHANGED <<pc, calls>>
           ELSE /\ visual_style' = [sized EXCEPT !.layout = "kamada_kawai"]
                /\ calls' = Append(calls, "print")
                /\ pc' = "vis_plot"
                /\ error' = error
    /\ UNCHANGED <<inputVars, convVars, edge_index, num_of_nodes, plotVars,
                   edge_betweenness, edge_weights_raw_normalized, graph,
                   message>>

\* lines 146-150
VisIgraphPlot ==
    /\ fn = "visualize" /\ pc = "vis_plot" /\ error = "none"
    /\ calls' = calls \o <<"print", "ig.plot", "print", "print">>
    /\ pc' = "done"
    /\ UNCHANGED <<inputVars, error, convVars, edge_index, num_of_nodes,
                   plotVars, visVars>>

\* lines 151-152: the message is formatted from visualization_tool.name
VisUnsupported ==
    /\ fn = "visualize" /\ pc = "vis_dispatch" /\ error = "none"
    /\ ~IsSupported(tool)
    /\ IF HasName(tool)
       THEN error' = "Exception" /\ message' = tool.name
       ELSE error' = "AttributeError" /\ message' = "name"
    /\ UNCHANGED <<inputVars, pc, convVars, edge_index, num_of_nodes,
                   plotVars, edge_betweenness, edge_weights_raw_normalized,
                   visual_style, graph, calls>>

NextVisualize ==
    \/ VisAssert
    \/ VisConvert
    \/ VisNumNodes
    \/ VisNetworkx
    \/ VisIgraphBuild
    \/ VisIgraphWeights
    \/ VisIgraphStyle
    \/ VisIgraphPlot
    \/ VisUnsupported

SpecVisualize == InitVisualize /\ [][NextVisualize]_vars

\* ------------------------------------------------- the three entry points
Init == InitConvert \/ InitDegrees \/ InitVisualize

Next == NextConvert \/ NextDegrees \/ NextVisualize

Spec == Init /\ [][Next]_vars

\* ================================================================ claims
\* what a reader of a returned edge index sees: its (source, target) pairs;
\* the 1-D array of length 0 holds none
EdgePairs(ei) ==
    IF Len(shape(ei)) = 2
    THEN {<<ei[1][k], ei[2][k]>> : k \in 1..Len(ei[1])}
    ELSE {}

Positions(m, x) ==
    {p \in (0..(Len(m) - 1)) \X (0..(Len(m[1]) - 1)) :
        m[p[1] + 1][p[2] + 1] = x}

IsBinary(m) ==
    \A i \in 1..Len(m) : \A j \in 1..Len(m[i]) : m[i][j] \in {0, 1}

ContainsInf(m) ==
    \E i \in 1..Len(m) : \E j \in 1..Len(m[i]) : m[i][j] \in {NegInf, PosInf}

Rebuild(n, ei) ==
    [i \in 1..n |-> [j \in 1..n |->
        IF <<i - 1, j - 1>> \in EdgePairs(ei) THEN 1 ELSE 0]]

Returned == fn = "convert" /\ pc = "returned"

\* C1: for a square matrix of 0s and 1s, the matrix rebuilt from the pairs
\* of the returned edge index (1 at every pair, 0 elsewhere) is the input.
C1_RoundTrip ==
    (Returned /\ IsBinary(arg.val))
        => Rebuild(Len(arg.val), result) = arg.val

C1_Witness ==
    /\ Returned
    /\ arg.val = <<<<0, 1>>, <<0, 0>>>>
    /\ result = <<<<0>>, <<1>>>>

\* C2: the active value is 0 exactly when some cell is infinite; the pairs
\* emitted are exactly the positions holding the active value, each once,
\* so with an infinite cell present no position holding -inf or 1 is emitted.
C2_ActiveValue ==
    Returned =>
        /\ active_value = (IF ContainsInf(arg.val) THEN 0 ELSE 1)
        /\ ContainsInf(arg.val)
             => /\ EdgePairs(result) = Positions(arg.val, 0)
                /\ EdgePairs(result) \cap Positions(arg.val, NegInf) = {}
                /\ EdgePairs(result) \cap Positions(arg.val, 1) = {}
        /\ ~ContainsInf(arg.val)
             => EdgePairs(result) = Positions(arg.val, 1)
        /\ Len(edge_list) = Cardinality(EdgePairs(result))

C2_Witness ==
    /\ Returned
    /\ arg.val = <<<<0, NegInf>>, <<1, 0>>>>
    /\ active_value = 0
    /\ result = <<<<0, 1>>, <<0, 1>>>>

\* C4: the value returned for any accepted matrix, also one with no active
\* cell, has a source row and a target row of equal length, one position
\* per active cell.
C4_TwoParallelRows ==
    Returned =>
        /\ HasTwoRows(result)
        /\ Len(result[1]) = Len(result[2])
        /\ Len(result[1]) =
              Cardinality(Positions(arg.val, active_value))

\* C6: an input that is no array, or an array that is not square, stops at
\* the assertions of lines 16-18 with an AssertionError: the active value
\* is never determined, no cell is scanned and nothing is returned.
C6_AssertionFirst ==
    (fn = "convert"
       /\ (arg.type # "ndarray" \/ Len(arg.val) # Len(arg.val[1])))
        => /\ pc \in {"conv_assert_type", "conv_assert_square"}
           /\ error \in {"none", "AssertionError"}
           /\ error = "none" => ENABLED NextConvert
           /\ active_value = None
           /\ edge_list = <<>>
           /\ result = <<>>

C6_Witness ==
    /\ fn = "convert"
    /\ arg.type = "ndarray"
    /\ Len(arg.val) = 1 /\ Len(arg.val[1]) = 2
    /\ pc = "conv_assert_square"
    /\ error = "AssertionError"

\* -------------------------------------------------------------- degrees
NumEdges(ei) == IF Len(shape(ei)) = 2 THEN Len(ei[1]) ELSE 0

IdsOf(ei) == {ei[r][k] : r \in 1..2, k \in 1..NumEdges(ei)}

EdgesFrom(ei, v) == {k \in 1..NumEdges(ei) : ei[1][k] = v}
EdgesInto(ei, v) == {k \in 1..NumEdges(ei) : ei[2][k] = v}

Counting == fn = "plot" /\ pc = "plot_count" /\ error = "none"

PassEnded ==
    /\ fn = "plot"
    /\ \/ pc \in {"plot_show", "done"}
       \/ pc = "plot_count" /\ cnt = NumEdges(edge_index)

\* C3: the node count is the number of distinct ids of the edge list the
\* counting pass iterates over; after k edges both degree arrays sum to k;
\* when the pass has ended out_degrees[v] is the number of edges with
\* source v and in_degrees[v] the number of edges with target v.
C3_DegreeCounts ==
    /\ (fn = "plot" /\ num_of_nodes # None)
          => num_of_nodes = Cardinality(IdsOf(edge_index))
    /\ Counting => Sum(out_degrees) = cnt /\ Sum(in_degrees) = cnt
    /\ PassEnded =>
          \A v \in IdsOf(edge_index) :
             /\ out_degrees[v] = Cardinality(EdgesFrom(edge_index, v))
             /\ in_degrees[v] = Cardinality(EdgesInto(edge_index, v))

C3_Witness ==
    /\ fn = "plot" /\ pc = "done"
    /\ arg.val = <<<<0, 1, 2>>, <<1, 2, 0>>>>
    /\ edge_index = arg.val
    /\ num_of_nodes = 3
    /\ cnt = 3
    /\ \A v \in 0..2 : out_degrees[v] = 1 /\ in_degrees[v] = 1
    /\ hist = [d \in 0..1 |-> IF d = 1 THEN 3 ELSE 0]

\* C5: for an edge index of non-negative ids, contiguous or not, the degree
\* arrays cover the dense range 0..max id, so every out_degrees[source] and
\* in_degrees[target] of the counting pass indexes inside the array.
C5_DenseSizing ==
    (fn = "plot" /\ pc = "plot_count" /\ kind = "edge_index")
        => /\ \A v \in IdsOf(edge_index) :
                 v \in DOMAIN out_degrees /\ v \in DOMAIN in_degrees
           /\ error # "IndexError"

MaxOutDegree ==
    CHOOSE d \in 0..NumEdges(edge_index) :
        /\ \E v \in DOMAIN out_degrees : out_degrees[v] = d
        /\ \A v \in DOMAIN out_degrees : out_degrees[v] <= d

\* C9: for every edge list with at least one edge the call builds the
\* histogram: it has length max out-degree + 1, hist[d] is the number of
\* nodes of out-degree d, and its entries sum to the node count.  Stated of
\* every call that has left the counting pass, on the edge list as passed.
C9_Histogram ==
    (fn = "plot" /\ arg.type = "ndarray" /\ kind = "edge_index"
       /\ NumEdges(arg.val) >= 1 /\ edge_index = arg.val
       /\ (error # "none" \/ pc \in {"plot_show", "done"}))
        => /\ error = "none"
           /\ DOMAIN hist = 0..MaxOutDegree
           /\ \A d \in 0..MaxOutDegree :
                 hist[d] = Cardinality({v \in DOMAIN out_degrees :
                                           out_degrees[v] = d})
           /\ Sum(hist) = num_of_nodes

\* C10: an input that is an edge index of shape (2, E) is used unchanged,
\* for every E >= 1 and also for E = 2: the edges counted are the pairs the
\* caller passed.
C10_EdgeIndexUnchanged ==
    (fn = "plot" /\ kind = "edge_index" /\ NumEdges(arg.val) >= 1
       /\ pc \notin {"plot_assert", "plot_convert"})
        => edge_index = arg.val

\* ------------------------------------------------------------ visualize
Stopped == fn = "visualize" /\ (error # "none" \/ pc = "done")

\* C7: with a valid edge index and a selector that is neither NETWORKX nor
\* IGRAPH the call ends in the explicit error naming the selector, with no
\* graph object built and no rendering call made.
C7_UnsupportedTool ==
    (Stopped /\ arg.type = "ndarray" /\ NumEdges(arg.val) >= 1
       /\ edge_index = arg.val /\ tool # NETWORKX /\ tool # IGRAPH)
        => /\ error = "Exception"
           /\ message = tool.name
           /\ graph.lib = "none"
           /\ calls = <<>>

WeightsComputed ==
    fn = "visualize" /\ pc \in {"vis_style", "vis_plot", "done"}

\* C8: when some edge has positive betweenness, the largest normalized
\* weight (before the 6th power) is 1 and every one lies in [0, 1].
C8_MaxWeightIsOne ==
    (WeightsComputed
       /\ \E k \in 1..Len(edge_betweenness) : edge_betweenness[k] > 0)
        => /\ \E k \in 1..Len(edge_weights_raw_normalized) :
                 LET q == edge_weights_raw_normalized[k]
                 IN  q.den > 0 /\ q.num = q.den
           /\ \A k \in 1..Len(edge_weights_raw_normalized) :
                 LET q == edge_weights_raw_normalized[k]
                 IN  q.den > 0 /\ 0 <= q.num /\ q.num <= q.den

====
